---- MODULE Spec2Model ----
(***************************************************************************)
(* OpTiMSoC network-on-chip adapter driver.                                *)
(*                                                                         *)
(* The repository holds three revisions of the driver:                     *)
(*   "simple"  src/unnamed/part_000             (one device, no receive)   *)
(*   "buf"     src/drivers/char/optimsoc-noc.c lines   1..306 (buffering)  *)
(*   "cls"     src/drivers/char/optimsoc-noc.c lines 308..676 (classifying)*)
(* The variable `variant` says which one a behaviour runs.                 *)
(*                                                                         *)
(* Process contexts (Procs) issue open/release/read/write; the interrupt   *)
(* handler runs on the cores of Cores.  Every shared-memory access of a    *)
(* handler that another context can observe is a step of its own.          *)
(***************************************************************************)
EXTENDS Integers, Sequences, FiniteSets, TLC

(***************************************************************************)
(* Bounds of the model.                                                    *)
(***************************************************************************)
MaxCalls == 4          \* system calls issued in a behaviour without packets
MaxArrivals == 2       \* packets the hardware delivers in a behaviour
IrqCalls == 2          \* system calls issued in a behaviour with packets
ClsIrqCalls == 1       \* the same, in the classifying revision
SmpArrivals == 1       \* packets that arrive with two cores taking the interrupt
MaxSends == 1          \* calls of optimsoc_mp_simple_send in a behaviour

Variants == {"simple", "buf", "cls"}
Procs == {"p1", "p2"}
\* The cores irq_handler runs on: one instance at a time on cpu0; cpu1 takes
\* the shared interrupt line as well where a second instance may start while
\* the first is in progress.
Cores == {"cpu0"}
AllCores == {"cpu0", "cpu1"}
\* The endpoints the hardware has; the endpoint-count register holds their
\* number.  Minor numbers of the device nodes are the same indices.
HwEndpoints == {0, 1}
NumHwEndpoints == Cardinality(HwEndpoints)

(***************************************************************************)
(* Program constants.                                                      *)
(***************************************************************************)
NR_ENDPOINTS == 16
OPTIMSOC_NA_MAX_PACKET_SIZE == 32
OPTIMSOC_CLASS_NUM == 8
OPTIMSOC_CLASS_MSB == 26
OPTIMSOC_CLASS_LSB == 24
OPTIMSOC_SRC_MSB == 23
OPTIMSOC_SRC_LSB == 19
SUCCESS == 0
\* The error numbers device_open and device_write return the negative of.
EBUSY == 16
EINVAL == 22
\* uint16_t ep, empty: the loop counters of irq_handler wrap at 2^16.
UINT16 == 65536
\* BASE == OPTIMSOC_NA_BASE_VADDR + 0x100000; REG_NUMEP == BASE.
BASE_OFFSET == 1048576
\* OPTIMSOC_NA_CT_NUM == OPTIMSOC_NA_REGS + 0x28 (an address, used as a count).
CT_NUM_OFFSET == 40
\* part_000: wptr += 512 (ints), the window maps 4096 bytes = 1024 ints.
WPTR_STEP == 512
OPTIMSOC_NOC_MEM_SIZE == 4096

\* The kernel virtual address ioremap_nocache() returns.
IoremapResults == {268435456}

Uninit == -1           \* content of memory kmalloc() returned and nobody wrote
NULL == <<>>           \* a null buffer pointer
FreshBuffer == [k \in 1..OPTIMSOC_NA_MAX_PACKET_SIZE |-> Uninit]

VARIABLES
    variant,                 \* which revision of the driver runs
    initpc,                  \* position of optimsoc_module_init
    chrdev,                  \* the character device is registered
    irqreg,                  \* irq_handler is registered on OPTIMSOC_NA_IRQ
    OPTIMSOC_NA_BASE_VADDR,  \* static uint32_t, 0 until ioremap
    _num_endpoints,          \* static uint32_t
    adapters,                \* buf: adapters[e] = [nopen, buffer]
    nopen,                   \* cls, simple: static int nopen
    refcnt,                  \* module use count (try_module_get/module_put)
    wptr,                    \* simple: write pointer, as an int offset; -1 is NULL
    pc, arg, tmp, ret,       \* per process: position, minor, loaded value, last return
    held,                    \* per process and minor: open files not yet released
    sigpending,              \* processes with a signal pending during a call
    callsLeft, pktsLeft,     \* remaining budget of system calls / packets
    callers,                 \* the processes that issue system calls
    sendsLeft,               \* remaining budget of optimsoc_mp_simple_send calls
    rx, tx,                  \* per endpoint: words waiting at the receive port, words sent
    irq,                     \* per core: the locals of irq_handler
    _buffer,                 \* cls: scratch packet buffer
    _domains_ready,          \* cls: readiness bitmap, a set of bit numbers per word
    cls_handlers,            \* cls: class -> handler (0 is none)
    calls,                   \* log of the class handler invocations
    accepted,                \* buf: per endpoint, the words stored since its open
                             \* that no read has returned yet
    oops                     \* the kernel faulted (null or unmapped access)

vars == <<variant, callers, accepted, initpc, chrdev, irqreg,
          OPTIMSOC_NA_BASE_VADDR, _num_endpoints, adapters, nopen, refcnt,
          wptr, pc, arg, tmp, ret, held, sigpending,
          callsLeft, pktsLeft, sendsLeft, rx, tx, irq, _buffer, _domains_ready,
          cls_handlers, calls, oops>>

initVars == <<initpc, chrdev, irqreg>>
memVars  == <<OPTIMSOC_NA_BASE_VADDR, _num_endpoints>>
openVars == <<adapters, nopen, refcnt, wptr>>
procVars == <<pc, arg, tmp, ret, held, sigpending, callsLeft>>
hwVars   == <<pktsLeft, sendsLeft, rx, tx>>
clsVars  == <<_buffer, _domains_ready, cls_handlers, calls>>

Classes == 0..(OPTIMSOC_CLASS_NUM - 1)
NoRet == [op |-> "none", e |-> 0, val |-> 0, data |-> <<>>]
IrqIdle == [pc |-> "idle", ep |-> 0, empty |-> 0, size |-> 0, i |-> 0,
            nrecv |-> 0, header |-> 0, class |-> 0, fn |-> 0,
            upd |-> <<>>, words |-> <<>>]

\* The budgets a behaviour of revision v starts with: system calls and sends
\* only, or packets with a few system calls of one process around them.
Budgets(v) ==
    {[calls |-> MaxCalls, pkts |-> 0, sends |-> MaxSends, procs |-> Procs],
     [calls |-> IF v = "cls" THEN ClsIrqCalls ELSE IrqCalls,
      pkts |-> MaxArrivals, sends |-> 0, procs |-> {"p1"}]}

InitState(v, b) ==
    /\ variant = v
    /\ initpc = "start"
    /\ chrdev = FALSE
    /\ irqreg = FALSE
    /\ OPTIMSOC_NA_BASE_VADDR = 0
    /\ _num_endpoints = 0
    /\ adapters = [e \in 0..(NR_ENDPOINTS - 1) |-> [nopen |-> 0, buffer |-> NULL]]
    /\ nopen = 0
    /\ refcnt = 0
    /\ wptr = -1
    /\ pc = [p \in Procs |-> "idle"]
    /\ arg = [p \in Procs |-> 0]
    /\ tmp = [p \in Procs |-> 0]
    /\ ret = [p \in Procs |-> NoRet]
    /\ held = [p \in Procs |-> [e \in HwEndpoints |-> 0]]
    /\ sigpending = {}
    /\ callsLeft = b.calls
    /\ callers = b.procs
    /\ sendsLeft = IF v = "simple" THEN 0 ELSE b.sends
    /\ pktsLeft = IF v = "simple" THEN 0 ELSE b.pkts
    /\ rx = [e \in HwEndpoints |-> <<>>]
    /\ tx = [e \in HwEndpoints |-> <<>>]
    /\ irq = [c \in AllCores |-> IrqIdle]
    /\ _buffer = NULL
    /\ _domains_ready = <<>>
    /\ cls_handlers = [k \in Classes |-> 0]
    /\ calls = <<>>
    /\ accepted = [e \in HwEndpoints |-> <<>>]
    /\ oops = FALSE

Init == \E v \in Variants : \E b \in Budgets(v) : InitState(v, b)

(***************************************************************************)
(* optimsoc_module_init                                                    *)
(***************************************************************************)
\* major = register_chrdev(...); if (major < 0) goto error0 / return major.
InitRegisterChrdev ==
    /\ initpc = "start" /\ ~oops
    /\ \/ /\ chrdev' = TRUE
          /\ initpc' = "request_irq"
       \/ /\ chrdev' = FALSE
          /\ initpc' = "failed"
    /\ UNCHANGED <<variant, callers, accepted, irqreg, memVars, openVars,
                   procVars, hwVars, irq, clsVars, oops>>

\* What is left registered when request_irq fails: error1 unregisters the
\* character device; part_000 returns ret at once.
ChrdevAfterIrqFailure(v) == v = "simple"

\* ret = request_irq(...); if (ret != SUCCESS) goto error1 / return ret.
InitRequestIrq ==
    /\ initpc = "request_irq" /\ ~oops
    /\ \/ /\ irqreg' = TRUE
          /\ initpc' = IF variant = "simple" THEN "done" ELSE "setup"
          /\ UNCHANGED chrdev
       \/ /\ irqreg' = FALSE
          /\ chrdev' = ChrdevAfterIrqFailure(variant)
          /\ initpc' = "failed"
    /\ UNCHANGED <<variant, callers, accepted, memVars, openVars, procVars,
                   hwVars, irq, clsVars, oops>>

\* REG_NUMEP is the macro BASE, an address: the code assigns the address
\* itself, (uint32_t)(REG_NUMEP), not the word stored there.
REG_NUMEP(base) == base + BASE_OFFSET

\* OPTIMSOC_NA_CT_NUM is the address OPTIMSOC_NA_REGS + 0x28, used as a number.
OPTIMSOC_NA_CT_NUM(base) == base + CT_NUM_OFFSET

\* kmalloc(OPTIMSOC_NA_MAX_PACKET_SIZE*sizeof(uint32_t), GFP_KERNEL): fresh,
\* uninitialised storage, or NULL when the allocation fails.
KmallocBuffer == {FreshBuffer, NULL}

\* Uninitialised contents of the readiness bitmap: every word holds the same
\* leftover bits.
GarbageBits == {{}, {5}}

\* kmalloc(n*sizeof(uint32_t), GFP_KERNEL) for the readiness bitmap: n
\* uninitialised words, or NULL; a request above the largest kmalloc size
\* (4 MiB, 2^20 words) always fails.
KmallocBitmap(n) ==
    IF n <= 1048576
    THEN {[d \in 1..n |-> g] : g \in GarbageBits} \cup {NULL}
    ELSE {NULL}

\* buf: ioremap, _num_endpoints, reset of adapters[].
\* cls: reset of cls_handlers[], _num_endpoints, kmalloc of the bitmap and
\*      of the scratch buffer (OPTIMSOC_NA_BASE_VADDR is still 0 here).
InitSetup ==
    /\ initpc = "setup" /\ ~oops
    /\ initpc' = "done"
    /\ IF variant = "buf"
       THEN /\ \E a \in IoremapResults :
                  /\ OPTIMSOC_NA_BASE_VADDR' = a
                  /\ _num_endpoints' = REG_NUMEP(a)
            /\ adapters' = [e \in 0..(NR_ENDPOINTS - 1) |->
                               [nopen |-> 0, buffer |-> NULL]]
            /\ UNCHANGED clsVars
       ELSE /\ cls_handlers' = [k \in Classes |-> 0]
            /\ _num_endpoints' = REG_NUMEP(OPTIMSOC_NA_BASE_VADDR)
            /\ _domains_ready' \in
                   KmallocBitmap(OPTIMSOC_NA_CT_NUM(OPTIMSOC_NA_BASE_VADDR))
            /\ _buffer' \in KmallocBuffer
            /\ UNCHANGED <<OPTIMSOC_NA_BASE_VADDR, adapters, calls>>
    /\ UNCHANGED <<variant, callers, accepted, chrdev, irqreg, nopen, refcnt,
                   wptr, procVars, hwVars, irq, oops>>

(***************************************************************************)
(* File operations: device_open, device_release, device_read, device_write *)
(***************************************************************************)
\* The open count device_open and device_release of minor e work on:
\* adapters[minor].nopen in the buffering revision, the one static nopen in
\* the other two.
NopenOf(e) == IF variant = "buf" THEN adapters[e].nopen ELSE nopen

SetNopen(e, n) ==
    IF variant = "buf"
    THEN /\ adapters' = [adapters EXCEPT ![e].nopen = n]
         /\ UNCHANGED nopen
    ELSE /\ nopen' = n
         /\ UNCHANGED adapters

\* A process may enter a file operation once the module is loaded.
CanCall(p) ==
    /\ ~oops
    /\ p \in callers
    /\ chrdev /\ initpc = "done"
    /\ pc[p] = "idle"
    /\ callsLeft > 0

Return(p, op, v, d) ==
    /\ pc' = [pc EXCEPT ![p] = "idle"]
    /\ ret' = [ret EXCEPT ![p] = [op |-> op, e |-> arg[p], val |-> v, data |-> d]]
    /\ sigpending' = sigpending \ {p}

\* open(2) on minor e enters device_open.
CallOpen(p, e) ==
    /\ CanCall(p)
    /\ pc' = [pc EXCEPT ![p] = "open_check"]
    /\ arg' = [arg EXCEPT ![p] = e]
    /\ callsLeft' = callsLeft - 1
    /\ UNCHANGED <<variant, callers, accepted,
                   initVars, memVars, openVars, tmp, ret, held,
                   sigpending, hwVars, irq, clsVars, oops>>

\* if (nopen > 0) return (-EBUSY);
OpenBusy(n) == n > 0

OpenCheck(p) ==
    /\ pc[p] = "open_check" /\ ~oops
    /\ IF OpenBusy(NopenOf(arg[p]))
       THEN Return(p, "open", -EBUSY, <<>>)
       ELSE /\ pc' = [pc EXCEPT ![p] = "open_alloc"]
            /\ UNCHANGED <<ret, sigpending>>
    /\ UNCHANGED <<variant, callers, accepted,
                   initVars, memVars, openVars, arg, tmp, held,
                   callsLeft, hwVars, irq, clsVars, oops>>

\* buf:    adapters[minor].buffer = kmalloc(...);
\* cls:    OPTIMSOC_NA_BASE_VADDR = ioremap_nocache(...);
\* simple: wptr = rptr = ioremap_nocache(...);
OpenAlloc(p) ==
    /\ pc[p] = "open_alloc" /\ ~oops
    /\ pc' = [pc EXCEPT ![p] = "open_load"]
    /\ CASE variant = "buf" ->
              /\ \E b \in KmallocBuffer :
                    adapters' = [adapters EXCEPT ![arg[p]].buffer = b]
              /\ accepted' = [accepted EXCEPT ![arg[p]] = <<>>]
              /\ UNCHANGED <<OPTIMSOC_NA_BASE_VADDR, wptr>>
         [] variant = "cls" ->
              /\ OPTIMSOC_NA_BASE_VADDR' \in IoremapResults
              /\ UNCHANGED <<adapters, wptr, accepted>>
         [] OTHER ->
              /\ wptr' \in {0, -1}
              /\ UNCHANGED <<adapters, OPTIMSOC_NA_BASE_VADDR, accepted>>
    /\ UNCHANGED <<variant, callers, initVars, _num_endpoints, nopen, refcnt,
                   arg, tmp, ret, held, sigpending, callsLeft, hwVars, irq,
                   clsVars, oops>>

\* nopen++ is a load ...
OpenLoad(p) ==
    /\ pc[p] = "open_load" /\ ~oops
    /\ tmp' = [tmp EXCEPT ![p] = NopenOf(arg[p])]
    /\ pc' = [pc EXCEPT ![p] = "open_store"]
    /\ UNCHANGED <<variant, callers, accepted,
                   initVars, memVars, openVars, arg, ret, held,
                   sigpending, callsLeft, hwVars, irq, clsVars, oops>>

\* ... and a store; try_module_get(THIS_MODULE); return (SUCCESS);
OpenStore(p) ==
    /\ pc[p] = "open_store" /\ ~oops
    /\ SetNopen(arg[p], tmp[p] + 1)
    /\ refcnt' = refcnt + 1
    /\ held' = [held EXCEPT ![p][arg[p]] = @ + 1]
    /\ Return(p, "open", SUCCESS, <<>>)
    /\ UNCHANGED <<variant, callers, accepted,
                   initVars, memVars, wptr, arg, tmp, callsLeft,
                   hwVars, irq, clsVars, oops>>

\* close(2) of a file the process opened on minor e enters device_release.
CallRelease(p, e) ==
    /\ CanCall(p)
    /\ held[p][e] > 0
    /\ held' = [held EXCEPT ![p][e] = @ - 1]
    /\ pc' = [pc EXCEPT ![p] = "release_load"]
    /\ arg' = [arg EXCEPT ![p] = e]
    /\ callsLeft' = callsLeft - 1
    /\ UNCHANGED <<variant, callers, accepted,
                   initVars, memVars, openVars, tmp, ret, sigpending,
                   hwVars, irq, clsVars, oops>>

\* nopen-- is a load ...
ReleaseLoad(p) ==
    /\ pc[p] = "release_load" /\ ~oops
    /\ tmp' = [tmp EXCEPT ![p] = NopenOf(arg[p])]
    /\ pc' = [pc EXCEPT ![p] = "release_store"]
    /\ UNCHANGED <<variant, callers, accepted,
                   initVars, memVars, openVars, arg, ret, held,
                   sigpending, callsLeft, hwVars, irq, clsVars, oops>>

\* ... and a store; module_put(THIS_MODULE); return (SUCCESS);
\* The buffer device_open allocated is left as it is.
ReleaseStore(p) ==
    /\ pc[p] = "release_store" /\ ~oops
    /\ SetNopen(arg[p], tmp[p] - 1)
    /\ refcnt' = refcnt - 1
    /\ Return(p, "release", SUCCESS, <<>>)
    /\ UNCHANGED <<variant, callers, accepted,
                   initVars, memVars, wptr, arg, tmp, held, callsLeft,
                   hwVars, irq, clsVars, oops>>

\* The byte counts read(2) and write(2) are called with.
Lengths == {8}

\* read(2) of n bytes on an open file of minor e enters device_read.
CallRead(p, e, n) ==
    /\ CanCall(p)
    /\ held[p][e] > 0
    /\ pc' = [pc EXCEPT ![p] = "read"]
    /\ arg' = [arg EXCEPT ![p] = e]
    /\ tmp' = [tmp EXCEPT ![p] = n]
    /\ callsLeft' = callsLeft - 1
    /\ UNCHANGED <<variant, callers, accepted,
                   initVars, memVars, openVars, ret, held, sigpending,
                   hwVars, irq, clsVars, oops>>

\* A signal is delivered to a process that is inside device_read.
SignalDeliver(p) ==
    /\ pc[p] = "read" /\ ~oops
    /\ p \notin sigpending
    /\ sigpending' = sigpending \cup {p}
    /\ UNCHANGED <<variant, callers, accepted,
                   initVars, memVars, openVars, pc, arg, tmp, ret,
                   held, callsLeft, hwVars, irq, clsVars, oops>>

\* What device_read returns and copies to the caller: return (0), no
\* copy_to_user, in all three revisions.
ReadResult(v, n) == [val |-> 0, data |-> <<>>]

\* simple: wptr += 512; *wptr = *rptr; the window maps
\* OPTIMSOC_NOC_MEM_SIZE bytes.  A store through a null or an out-of-window
\* pointer either faults or goes unnoticed.
WptrMapped(w) == w >= 0 /\ w * 4 < OPTIMSOC_NOC_MEM_SIZE

DeviceRead(p) ==
    /\ pc[p] = "read" /\ ~oops
    /\ LET r == ReadResult(variant, tmp[p])
       IN  /\ Return(p, "read", r.val, r.data)
           /\ accepted' = [accepted EXCEPT ![arg[p]] =
                               SubSeq(@, Len(r.data) + 1, Len(@))]
    /\ IF variant = "simple"
       THEN /\ wptr' = IF wptr < 0 THEN wptr ELSE wptr + WPTR_STEP
            /\ IF wptr >= 0 /\ WptrMapped(wptr + WPTR_STEP)
               THEN oops' = FALSE
               ELSE oops' \in BOOLEAN
       ELSE UNCHANGED <<wptr, oops>>
    /\ UNCHANGED <<variant, callers, initVars, memVars, adapters, nopen,
                   refcnt, arg, tmp, held, callsLeft, hwVars, irq, clsVars>>

\* write(2) on an open file of minor e enters device_write.
CallWrite(p, e, n) ==
    /\ CanCall(p)
    /\ held[p][e] > 0
    /\ pc' = [pc EXCEPT ![p] = "write"]
    /\ arg' = [arg EXCEPT ![p] = e]
    /\ tmp' = [tmp EXCEPT ![p] = n]
    /\ callsLeft' = callsLeft - 1
    /\ UNCHANGED <<variant, callers, accepted,
                   initVars, memVars, openVars, ret, held, sigpending,
                   hwVars, irq, clsVars, oops>>

\* The bytes of the caller's buffer write(2) is called with.
UserBytes == <<1, 2, 3, 4, 5, 6, 7, 8>>

\* What device_write returns: return (-EINVAL), in all three revisions.
WriteResult(v, n) == -EINVAL

\* The words device_write sends to the port of minor e: none.
WriteWords(v, n) == <<>>

DeviceWrite(p) ==
    /\ pc[p] = "write" /\ ~oops
    /\ Return(p, "write", WriteResult(variant, tmp[p]), <<>>)
    /\ tx' = [tx EXCEPT ![arg[p]] = @ \o WriteWords(variant, tmp[p])]
    /\ UNCHANGED <<variant, callers, accepted,
                   initVars, memVars, openVars, arg, tmp, held,
                   callsLeft, pktsLeft, sendsLeft, rx, irq, clsVars, oops>>

\* A file operation entered through the character device that a failed
\* module load left registered runs code of a module that is gone.
CallStale(p) ==
    /\ ~oops
    /\ chrdev /\ initpc = "failed"
    /\ pc[p] = "idle"
    /\ oops' = TRUE
    /\ UNCHANGED <<variant, callers, accepted,
                   initVars, memVars, openVars, procVars, hwVars, irq,
                   clsVars>>

ProcStep(p) ==
    \/ \E e \in HwEndpoints : CallOpen(p, e)
    \/ OpenCheck(p)
    \/ OpenAlloc(p)
    \/ OpenLoad(p)
    \/ OpenStore(p)
    \/ \E e \in HwEndpoints : CallRelease(p, e)
    \/ ReleaseLoad(p)
    \/ ReleaseStore(p)
    \/ \E e \in HwEndpoints, n \in Lengths : CallRead(p, e, n)
    \/ SignalDeliver(p)
    \/ DeviceRead(p)
    \/ \E e \in HwEndpoints, n \in Lengths : CallWrite(p, e, n)
    \/ DeviceWrite(p)
    \/ CallStale(p)

(***************************************************************************)
(* The hardware: receive and send ports, packets, the compute-tile list    *)
(***************************************************************************)
\* (x >> lsb) & ~(~0 << (msb-lsb+1))
EXTRACT(x, msb, lsb) == (x \div (2 ^ lsb)) % (2 ^ (msb - lsb + 1))

\* A header word: bits [31:27] destination, [26:24] class, [23:19] source,
\* [9:2] endpoint id, bit 1 ready.
MkHeader(dest, class, src, epid, ready) ==
    dest * (2 ^ 27) + class * (2 ^ OPTIMSOC_CLASS_LSB)
        + src * (2 ^ OPTIMSOC_SRC_LSB) + epid * 4 + ready * 2

\* The compute-tile list the register window holds at OPTIMSOC_NA_CT_LIST.
CtList == <<2, 5>>

H3  == MkHeader(0, 3, 2, 0, 0)    \* class 3, from tile 2
H7r == MkHeader(0, 7, 5, 1, 1)    \* class 7, ready, from tile 5, endpoint 1
H7x == MkHeader(0, 7, 9, 1, 1)    \* class 7, ready, from tile 9 (not listed)
HeaderSamples == {H3, H7r, H7x}

\* The packets the hardware delivers: the length word, then the payload.
OversizedPacket ==
    <<OPTIMSOC_NA_MAX_PACKET_SIZE + 1>>
        \o [k \in 1..(OPTIMSOC_NA_MAX_PACKET_SIZE + 1) |-> 9]
Packets == {<<2, H3, 11>>, <<1, H7r>>, <<1, H7x>>, OversizedPacket}

\* No core is between the length word of a packet and its last word.
BetweenPackets == \A c \in AllCores : irq[c].pc \in {"idle", "for"}

\* A packet arrives at the receive port of endpoint e.  It arrives whole,
\* behind the words that wait there; an arrival while the handler moves the
\* words of an earlier packet is taken at the end of that packet, which
\* leaves every word the handler reads the same.
HwArrive(e, pkt) ==
    /\ ~oops
    /\ pktsLeft > 0
    /\ BetweenPackets
    /\ pktsLeft' = pktsLeft - 1
    /\ rx' = [rx EXCEPT ![e] = @ \o pkt]
    /\ UNCHANGED <<variant, callers, accepted,
                   initVars, memVars, openVars, procVars,
                   sendsLeft, tx, irq,
                   clsVars, oops>>

\* receive(ep): reading the port pops a word; an empty port reads as 0.
ReceiveWord(port) == IF port = <<>> THEN 0 ELSE Head(port)
ReceiveRest(port) == IF port = <<>> THEN <<>> ELSE Tail(port)

\* optimsoc_mp_simple_send: send(endpoint, size), then send(endpoint, buf[i])
\* for i < size.
SimpleSendWords(size, buf) == <<size>> \o SubSeq(buf, 1, size)

\* The buffers optimsoc_mp_simple_send is called with by other kernel code.
SendBuffers == {<<67305985, 134678021>>}

optimsoc_mp_simple_send(e, size, buf) ==
    /\ ~oops
    /\ initpc = "done" /\ variant # "simple"
    /\ sendsLeft > 0
    /\ sendsLeft' = sendsLeft - 1
    /\ tx' = [tx EXCEPT ![e] = @ \o SimpleSendWords(size, buf)]
    /\ UNCHANGED <<variant, callers, accepted,
                   initVars, memVars, openVars, procVars,
                   pktsLeft, rx, irq, clsVars, oops>>

\* optimsoc_get_tilerank(tile): the index of the first entry of ctlist equal
\* to tile among the first `bound` entries, else -1.  The code passes the
\* address OPTIMSOC_NA_CT_NUM as bound, so the scan runs past the list into
\* whatever the window holds behind it: a tile that is not listed yields -1
\* or the index of a stray match behind the list.
optimsoc_get_tilerank(tile, bound) ==
    LET hits == {k \in 1..Len(CtList) : k <= bound /\ CtList[k] = tile}
    IN  IF hits # {}
        THEN {(CHOOSE k \in hits : \A m \in hits : k <= m) - 1}
        ELSE {-1} \cup {k \in {Len(CtList)} : k < bound}

\* 1 << endpoint, as the set of bits it sets: a shift by 32 or more is
\* undefined and yields nothing or the count taken modulo 32.
ShiftBits(endpoint) ==
    IF endpoint < 32 THEN {{endpoint}} ELSE {{}, {endpoint % 32}}

(***************************************************************************)
(* irq_handler                                                             *)
(***************************************************************************)
IrqSet(c, r) == irq' = [irq EXCEPT ![c] = r]

\* The adapter raises its interrupt while a packet waits at a port; the
\* interrupt enters irq_handler: while (1) { empty = 0; for (ep = 0; ...
IrqEnter(c) ==
    /\ ~oops
    /\ irqreg
    /\ \E e \in HwEndpoints : rx[e] # <<>>
    /\ variant # "simple"
    /\ irq[c].pc = "idle"
    /\ IrqSet(c, [IrqIdle EXCEPT !.pc = "for"])
    /\ UNCHANGED <<variant, callers, accepted,
                   initVars, memVars, openVars, procVars, hwVars,
                   clsVars, oops>>

\* ep++ on a uint16_t.
NextEp(ep) == (ep + 1) % UINT16

\* The loop test of the for loop: ep < _num_endpoints.
ScanMore(ep, n) == ep < n

\* Where a length word sends the handler: size == 0 counts the endpoint as
\* empty, size > OPTIMSOC_NA_MAX_PACKET_SIZE drops, anything else copies.
SizeBranch(size) ==
    IF size = 0 THEN "empty"
    ELSE IF size > OPTIMSOC_NA_MAX_PACKET_SIZE THEN "drop"
    ELSE "copy"

\* size = receive(ep) on an endpoint the hardware has.
IrqPoll(c) ==
    LET r == irq[c]
        size == ReceiveWord(rx[r.ep])
    IN  /\ ~oops
        /\ r.pc = "for"
        /\ ScanMore(r.ep, _num_endpoints)
        /\ r.ep \in HwEndpoints
        /\ rx' = [rx EXCEPT ![r.ep] = ReceiveRest(@)]
        /\ IF SizeBranch(size) = "empty"
           THEN IrqSet(c, [r EXCEPT !.size = size,
                                    !.empty = (@ + 1) % UINT16,
                                    !.ep = NextEp(@)])
           ELSE IrqSet(c, [r EXCEPT !.size = size, !.i = 0, !.nrecv = 0,
                                    !.upd = <<>>, !.words = <<>>,
                                    !.pc = SizeBranch(size)])
        /\ UNCHANGED <<variant, callers, accepted,
                       initVars, memVars, openVars, procVars,
                       pktsLeft, sendsLeft, tx, clsVars, oops>>

\* The iterations of the for loop on indices behind the last endpoint the
\* hardware has, up to the loop bound or the wrap of ep: every receive(ep)
\* there reads outside the device; it reads 0, or the access faults.
IrqScanAbsent(c) ==
    LET r == irq[c]
        last == IF _num_endpoints < UINT16 THEN _num_endpoints ELSE UINT16
    IN  /\ ~oops
        /\ r.pc = "for"
        /\ ScanMore(r.ep, _num_endpoints)
        /\ r.ep \notin HwEndpoints
        /\ \/ /\ IrqSet(c, [r EXCEPT !.size = 0,
                                     !.empty = (@ + (last - r.ep)) % UINT16,
                                     !.ep = last % UINT16])
              /\ UNCHANGED oops
           \/ /\ oops' = TRUE
              /\ UNCHANGED irq
        /\ UNCHANGED <<variant, callers, accepted,
                       initVars, memVars, openVars, procVars, hwVars,
                       clsVars>>

\* if (empty == _num_endpoints) break;
ScanDone(empty, n) == empty = n

\* The for loop ends: return (IRQ_HANDLED), or the next pass of while (1).
IrqEndPass(c) ==
    LET r == irq[c]
    IN  /\ ~oops
        /\ r.pc = "for"
        /\ ~ScanMore(r.ep, _num_endpoints)
        /\ IF ScanDone(r.empty, _num_endpoints)
           THEN IrqSet(c, [r EXCEPT !.pc = "idle"])
           ELSE IrqSet(c, [r EXCEPT !.empty = 0, !.ep = 0])
        /\ UNCHANGED <<variant, callers, accepted,
                       initVars, memVars, openVars, procVars, hwVars,
                       clsVars, oops>>

\* A loop test that lets the loop run once more: i <= size.
LoopMore_mut(i, size) == i <= size

\* The loop test of the drop loop and of the copy loop: i < size.
LoopMore(i, size) == i < size

\* After the drop loop or the copy loop: the buffering revision goes on with
\* the next endpoint, the classifying revision falls through to the header.
AfterPacket(r) ==
    IF variant = "buf"
    THEN [r EXCEPT !.pc = "for", !.ep = NextEp(@)]
    ELSE [r EXCEPT !.pc = "classify"]

\* for (i = 0; i < size; i++) (void)receive(ep);
\* Once the port is empty every further receive(ep) of the loop reads 0 and
\* pops nothing: these iterations are taken together.
IrqDrop(c) ==
    LET r == irq[c]
    IN  /\ ~oops
        /\ r.pc = "drop"
        /\ IF LoopMore(r.i, r.size)
           THEN IF rx[r.ep] = <<>>
                THEN /\ IrqSet(c, [r EXCEPT !.i = r.size])
                     /\ UNCHANGED rx
                ELSE /\ rx' = [rx EXCEPT ![r.ep] = ReceiveRest(@)]
                     /\ IrqSet(c, [r EXCEPT !.i = @ + 1, !.nrecv = @ + 1])
           ELSE /\ IrqSet(c, AfterPacket(r))
                /\ UNCHANGED rx
        /\ UNCHANGED <<variant, callers, accepted,
                       initVars, memVars, openVars, procVars,
                       pktsLeft, sendsLeft, tx, clsVars, oops>>

\* A copy that starts one slot too far.
CopySlot_mut(buffer, i) == i + 2

\* The slot of the destination buffer word number i of a packet goes to:
\* adapters[ep].buffer[i] and _buffer[i], whatever the buffer holds already.
CopySlot(buffer, i) == i + 1

\* for (i = 0; i < size; i++) adapters[ep].buffer[i] = receive(ep);
\*                            _buffer[i] = receive(ep);
\* A store through a null buffer pointer faults.
IrqCopy(c) ==
    LET r == irq[c]
        dst == IF variant = "buf" THEN adapters[r.ep].buffer ELSE _buffer
        w == ReceiveWord(rx[r.ep])
    IN  /\ ~oops
        /\ r.pc = "copy"
        /\ IF LoopMore(r.i, r.size)
           THEN /\ rx' = [rx EXCEPT ![r.ep] = ReceiveRest(@)]
                /\ IF dst = NULL
                   THEN /\ oops' = TRUE
                        /\ UNCHANGED <<irq, adapters, _buffer, accepted>>
                   ELSE /\ IrqSet(c, [r EXCEPT !.i = @ + 1, !.nrecv = @ + 1,
                                                !.words = Append(@, w)])
                        /\ IF variant = "buf"
                           THEN /\ adapters' =
                                     [adapters EXCEPT
                                        ![r.ep].buffer[CopySlot(dst, r.i)] = w]
                                /\ accepted' =
                                     [accepted EXCEPT ![r.ep] = Append(@, w)]
                                /\ UNCHANGED _buffer
                           ELSE /\ _buffer' =
                                     [_buffer EXCEPT ![CopySlot(dst, r.i)] = w]
                                /\ UNCHANGED <<adapters, accepted>>
                        /\ UNCHANGED oops
           ELSE /\ IrqSet(c, AfterPacket(r))
                /\ UNCHANGED <<rx, adapters, _buffer, accepted, oops>>
        /\ UNCHANGED <<variant, callers, initVars, memVars, nopen, refcnt,
                       wptr, procVars, pktsLeft, sendsLeft, tx,
                       _domains_ready, cls_handlers, calls>>

\* header = _buffer[0]: a word nobody wrote reads as any value.
HeaderRead(buffer) ==
    IF buffer[1] = Uninit THEN HeaderSamples ELSE {buffer[1]}

\* class == OPTIMSOC_CLASS_NUM-1 and ready = (header & 0x2) >> 1.
ReadyUpdate(header) ==
    /\ EXTRACT(header, OPTIMSOC_CLASS_MSB, OPTIMSOC_CLASS_LSB)
           = OPTIMSOC_CLASS_NUM - 1
    /\ EXTRACT(header, 1, 1) = 1

\* A readiness update that stores nothing.
BitmapOr_mut(bitmap, domain, bits) == bitmap

\* The readiness bitmap after _domains_ready[domain] |= 1 << endpoint with
\* domain inside the allocation.
BitmapOr(bitmap, domain, bits) ==
    [bitmap EXCEPT ![domain + 1] = @ \cup bits]

\* header = _buffer[0]; class = EXTRACT(header, ...); for class 7 with the
\* ready bit: domain = optimsoc_get_tilerank(tile);
\* _domains_ready[domain] |= 1 << endpoint.  A store outside the allocation
\* faults or hits other memory; a load or store through NULL faults.
IrqClassify(c) ==
    LET r == irq[c]
    IN  /\ ~oops
        /\ r.pc = "classify"
        /\ IF _buffer = NULL
           THEN /\ oops' = TRUE
                /\ UNCHANGED <<irq, _domains_ready>>
           ELSE \E header \in HeaderRead(_buffer) :
                  LET class == EXTRACT(header, OPTIMSOC_CLASS_MSB,
                                       OPTIMSOC_CLASS_LSB)
                      tile == EXTRACT(header, OPTIMSOC_SRC_MSB,
                                      OPTIMSOC_SRC_LSB)
                      endpoint == EXTRACT(header, 9, 2)
                      r2 == [r EXCEPT !.pc = "dispatch", !.header = header,
                                      !.class = class]
                  IN  IF ReadyUpdate(header)
                      THEN \E domain \in optimsoc_get_tilerank(tile,
                                  OPTIMSOC_NA_CT_NUM(OPTIMSOC_NA_BASE_VADDR)) :
                             /\ IrqSet(c, [r2 EXCEPT !.upd = <<domain, endpoint>>])
                             /\ IF _domains_ready = NULL
                                THEN /\ oops' = TRUE
                                     /\ UNCHANGED _domains_ready
                                ELSE IF domain \in 0..(Len(_domains_ready) - 1)
                                THEN /\ \E bits \in ShiftBits(endpoint) :
                                          _domains_ready' =
                                              BitmapOr(_domains_ready, domain, bits)
                                     /\ UNCHANGED oops
                                ELSE /\ oops' \in BOOLEAN
                                     /\ UNCHANGED _domains_ready
                      ELSE /\ IrqSet(c, r2)
                           /\ UNCHANGED <<_domains_ready, oops>>
        /\ UNCHANGED <<variant, callers, accepted,
                       initVars, memVars, openVars, procVars, hwVars,
                       _buffer, cls_handlers, calls>>

\* if (cls_handlers[class] == 0) { printk(...); continue; }
NoHandler(fn) == fn = 0

\* A break instead of the continue: the handler leaves the scan.
AfterDrop_mut(r) == [r EXCEPT !.pc = "idle"]

\* What the handler does after an unregistered class: continue, the next
\* endpoint of the same pass.
AfterDrop(r) == [r EXCEPT !.pc = "for", !.ep = NextEp(@)]

IrqDispatch(c) ==
    LET r == irq[c]
        fn == cls_handlers[r.class]
    IN  /\ ~oops
        /\ r.pc = "dispatch"
        /\ IF NoHandler(fn)
           THEN IrqSet(c, AfterDrop(r))
           ELSE IrqSet(c, [r EXCEPT !.pc = "call", !.fn = fn])
        /\ UNCHANGED <<variant, callers, accepted,
                       initVars, memVars, openVars, procVars, hwVars,
                       clsVars, oops>>

\* The record of one invocation cls_handlers[class](_buffer, size).
Invocation(fn, class, buffer, size) ==
    [fn |-> fn, class |-> class, size |-> size,
     buf |-> SubSeq(buffer, 1, IF size < Len(buffer) THEN size ELSE Len(buffer))]

\* cls_handlers[class](_buffer, size): the table is read again or the value
\* tested before is used; a call through a cleared entry faults.
IrqCall(c) ==
    LET r == irq[c]
    IN  /\ ~oops
        /\ r.pc = "call"
        /\ \E fn \in {r.fn, cls_handlers[r.class]} :
              IF fn = 0
              THEN /\ oops' = TRUE
                   /\ UNCHANGED <<irq, calls>>
              ELSE /\ calls' = Append(calls,
                                      Invocation(fn, r.class, _buffer, r.size))
                   /\ IrqSet(c, [r EXCEPT !.pc = "for", !.ep = NextEp(@)])
                   /\ UNCHANGED oops
        /\ UNCHANGED <<variant, callers, accepted,
                       initVars, memVars, openVars, procVars, hwVars,
                       _buffer, _domains_ready, cls_handlers>>

\* Other kernel code sets or clears an entry of the exported table
\* cls_handlers (class registration).
Handlers == {1}
RegClasses == {3, 7}

\* The handler reads the table at the dispatch only: a change made while it
\* scans or moves words is taken at the next dispatch.
RegisterHandler(k, h) ==
    /\ ~oops
    /\ variant = "cls" /\ initpc = "done"
    /\ \A c \in AllCores : irq[c].pc \in {"idle", "dispatch", "call"}
    /\ cls_handlers[k] # h
    /\ cls_handlers' = [cls_handlers EXCEPT ![k] = h]
    /\ UNCHANGED <<variant, callers, accepted,
                   initVars, memVars, openVars, procVars, hwVars, irq,
                   _buffer, _domains_ready, calls, oops>>

IrqStep(c) ==
    \/ IrqEnter(c)
    \/ IrqPoll(c)
    \/ IrqScanAbsent(c)
    \/ IrqEndPass(c)
    \/ IrqDrop(c)
    \/ IrqCopy(c)
    \/ IrqClassify(c)
    \/ IrqDispatch(c)
    \/ IrqCall(c)

Next ==
    \/ InitRegisterChrdev
    \/ InitRequestIrq
    \/ InitSetup
    \/ \E p \in Procs : ProcStep(p)
    \/ \E c \in Cores : IrqStep(c)
    \/ \E e \in HwEndpoints, pkt \in Packets : HwArrive(e, pkt)
    \/ \E e \in HwEndpoints, buf \in SendBuffers :
          optimsoc_mp_simple_send(e, Len(buf), buf)
    \/ \E k \in RegClasses, h \in Handlers \cup {0} : RegisterHandler(k, h)

Spec == Init /\ [][Next]_vars

\* The same system with the file operations issued one after the other: a
\* process enters and runs a file operation only while no other process is
\* inside one.
OthersIdle(p) == \A q \in Procs \ {p} : pc[q] = "idle"

SeqNext ==
    \/ InitRegisterChrdev
    \/ InitRequestIrq
    \/ InitSetup
    \/ \E p \in Procs : OthersIdle(p) /\ ProcStep(p)
    \/ \E c \in Cores : IrqStep(c)
    \/ \E e \in HwEndpoints, pkt \in Packets : HwArrive(e, pkt)
    \/ \E e \in HwEndpoints, buf \in SendBuffers :
          optimsoc_mp_simple_send(e, Len(buf), buf)
    \/ \E k \in RegClasses, h \in Handlers \cup {0} : RegisterHandler(k, h)

SpecSeq == Init /\ [][SeqNext]_vars

\* The classifying revision with the interrupt line shared across cores: a
\* second instance of irq_handler may start on cpu1 while the first is in
\* progress on cpu0.  No file operation is issued.
InitSmp ==
    InitState("cls", [calls |-> 0, pkts |-> SmpArrivals, sends |-> 0,
                      procs |-> {}])

NextSmp ==
    \/ InitRegisterChrdev
    \/ InitRequestIrq
    \/ InitSetup
    \/ \E c \in AllCores : IrqStep(c)
    \/ \E e \in HwEndpoints, pkt \in Packets : HwArrive(e, pkt)
    \/ \E k \in RegClasses, h \in Handlers \cup {0} : RegisterHandler(k, h)

SpecSmp == InitSmp /\ [][NextSmp]_vars

\* The same system with the handler scheduled fairly: an instance of
\* irq_handler that can take a step takes one (interrupt context is not
\* preempted by process context), and optimsoc_module_init, once past
\* request_irq, runs on to its return.
SpecLive ==
    /\ Spec
    /\ WF_vars(\E c \in Cores : IrqStep(c))
    /\ WF_vars(InitSetup)

(***************************************************************************)
(* Properties                                                              *)
(***************************************************************************)
RECURSIVE HeldBy(_, _)
HeldBy(S, e) ==
    IF S = {} THEN 0
    ELSE LET p == CHOOSE x \in S : TRUE
         IN  held[p][e] + HeldBy(S \ {p}, e)

\* The number of open files on minor e: successful opens not yet released.
HeldOn(e) == HeldBy(Procs, e)

\* Core c takes a step of irq_handler.
IrqSteps(c) == irq'[c] # irq[c]

\* C1: with the file operations issued one after the other, an open of
\* endpoint e while e is open returns -EBUSY and leaves the open count as it
\* is, and an open of e by the process whose last file operation was the
\* matching release of e, with e not open since, passes the busy test and
\* returns SUCCESS.
C1_OpenBusyThenAgain ==
    [][\A p \in Procs :
          /\ (pc[p] = "open_check" /\ pc'[p] # "open_check" /\ HeldOn(arg[p]) > 0)
                => /\ pc'[p] = "idle"
                   /\ ret'[p].op = "open" /\ ret'[p].val = -EBUSY
                   /\ NopenOf(arg[p])' = NopenOf(arg[p])
          /\ (pc[p] = "open_check" /\ pc'[p] # "open_check"
                 /\ ret[p].op = "release" /\ ret[p].e = arg[p]
                 /\ HeldOn(arg[p]) = 0)
                => pc'[p] = "open_alloc"
          /\ (pc[p] = "open_store" /\ pc'[p] # "open_store")
                => ret'[p].op = "open" /\ ret'[p].val = SUCCESS
      ]_vars

\* C2: in every reachable state the open count of every endpoint is 0 or 1
\* and at most one open file exists per endpoint, also with concurrent opens.
C2_AtMostOneOpen ==
    \A e \in HwEndpoints : NopenOf(e) \in {0, 1} /\ HeldOn(e) <= 1

\* C3: buffering revision: after a length word size > 32 from endpoint e the
\* handler pops exactly size further words from the port of e (one per step
\* of the drop loop, which it leaves after size of them) and no step of the
\* drop loop changes a buffer of any endpoint.
C3_OversizedDrained ==
    [][\A c \in Cores :
          (variant = "buf" /\ irq[c].pc = "drop" /\ IrqSteps(c)) =>
             /\ irq[c].size > OPTIMSOC_NA_MAX_PACKET_SIZE
             /\ adapters' = adapters
             /\ \A e \in HwEndpoints \ {irq[c].ep} : rx'[e] = rx[e]
             /\ IF irq'[c].pc = "drop"
                THEN /\ rx[irq[c].ep] # <<>>
                     /\ rx'[irq[c].ep] = Tail(rx[irq[c].ep])
                     /\ irq'[c].nrecv = irq[c].nrecv + 1
                     /\ irq'[c].nrecv <= irq[c].size
                ELSE /\ rx'[irq[c].ep] = rx[irq[c].ep]
                     /\ irq[c].nrecv = irq[c].size
                     /\ irq'[c].pc = "for"
      ]_vars

\* C3 witness: the handler has just left the drop loop of an oversized
\* packet, having read as many words as the length word said.
C3_Witness ==
    \E c \in Cores :
       /\ variant = "buf" /\ irq[c].pc = "for"
       /\ irq[c].size > OPTIMSOC_NA_MAX_PACKET_SIZE
       /\ irq[c].nrecv = irq[c].size

\* C4: classifying revision: while the handler works on a packet whose
\* length word is above 32 it invokes no class handler and leaves the
\* readiness bitmap as it is.
C4_OversizedSilent ==
    [][\A c \in Cores :
          (variant = "cls" /\ irq[c].size > OPTIMSOC_NA_MAX_PACKET_SIZE
              /\ irq[c].pc \in {"drop", "classify", "dispatch", "call"}
              /\ IrqSteps(c))
             => calls' = calls /\ _domains_ready' = _domains_ready
      ]_vars

\* C5: buffering revision: a read of n bytes that returns on endpoint e
\* while the words of whole packets of 1..32 words wait in the buffer of e,
\* all of them stored while the buffer had room, returns the first of these
\* words in the order the handler read them from the port, as many as n
\* bytes hold.
C5_ReaderGetsWordsInOrder ==
    [][\A p \in Procs :
          (/\ variant = "buf"
           /\ pc[p] = "read" /\ pc'[p] = "idle"
           /\ BetweenPackets
           /\ accepted[arg[p]] # <<>>
           /\ Len(accepted[arg[p]]) < OPTIMSOC_NA_MAX_PACKET_SIZE)
             => LET want == tmp[p] \div 4
                    have == Len(accepted[arg[p]])
                    k == IF want < have THEN want ELSE have
                IN  /\ ret'[p].op = "read"
                    /\ ret'[p].data = SubSeq(accepted[arg[p]], 1, k)
      ]_vars

\* The slots of a buffer that hold a word.
UsedSlots(buffer) == {s \in DOMAIN buffer : buffer[s] # Uninit}

\* C6: buffering revision: every word the handler took for an endpoint and
\* no read has returned keeps a slot of its own in the endpoint's buffer as
\* long as the buffer has room (no later arrival overwrites it), and the
\* buffer never holds more than C-1 = 31 words.
C6_DropNewNoOverwrite ==
    variant = "buf" =>
       \A e \in HwEndpoints :
          adapters[e].buffer # NULL =>
             LET used == Cardinality(UsedSlots(adapters[e].buffer))
                 room == OPTIMSOC_NA_MAX_PACKET_SIZE - 1
             IN  /\ used <= room
                 /\ used = IF Len(accepted[e]) < room
                           THEN Len(accepted[e]) ELSE room

\* C7: a read returns only with data or after a signal was delivered to the
\* reader while it was inside the read.
C7_ReadBlocksUntilData ==
    [][\A p \in Procs :
          (pc[p] = "read" /\ pc'[p] = "idle")
             => ret'[p].data # <<>> \/ p \in sigpending
      ]_vars

\* The bytes b packed four to a word, first byte lowest, the last word padded
\* with zero bytes.
ByteAt(b, k) == IF k <= Len(b) THEN b[k] ELSE 0
PackedWords(b) ==
    [w \in 1..((Len(b) + 3) \div 4) |->
        ByteAt(b, 4 * w - 3) + 256 * ByteAt(b, 4 * w - 2)
            + 65536 * ByteAt(b, 4 * w - 1) + 16777216 * ByteAt(b, 4 * w)]

\* C8: a write of n bytes on endpoint e appends to the send port of e the
\* word count ceil(n/4) and then the n bytes packed into words in caller
\* order (2, 0x04030201, 0x08070605 for the bytes 01..08), and leaves every
\* other send port as it is.
C8_WriteSendsLengthThenWords ==
    [][\A p \in Procs :
          (pc[p] = "write" /\ pc'[p] = "idle")
             => LET bytes == SubSeq(UserBytes, 1, tmp[p])
                IN  /\ tx'[arg[p]] = tx[arg[p]]
                          \o <<(tmp[p] + 3) \div 4>> \o PackedWords(bytes)
                    /\ \A e \in HwEndpoints \ {arg[p]} : tx'[e] = tx[e]
      ]_vars

\* The handler of core c works on a packet of 1..32 words whose header has
\* class 7 and the ready bit set.
ReadyPacket(r) ==
    /\ r.size \in 1..OPTIMSOC_NA_MAX_PACKET_SIZE
    /\ EXTRACT(r.header, OPTIMSOC_CLASS_MSB, OPTIMSOC_CLASS_LSB) = 7
    /\ EXTRACT(r.header, 1, 1) = 1

\* The position of tile in the compute-tile list, counted from 0.
RankOf(tile) ==
    (CHOOSE k \in 1..Len(CtList) :
        CtList[k] = tile /\ \A m \in 1..(k - 1) : CtList[m] # tile) - 1

\* The step of the handler that decodes a class-7 ready header sets, for a
\* source tile of the compute-tile list and an allocated bitmap, the bit of
\* the header's endpoint id in the bitmap word of the tile's rank and
\* changes no other bit.
ReadyBitSet(c) ==
    (/\ irq[c].pc = "classify" /\ irq'[c].pc = "dispatch"
     /\ ReadyPacket(irq'[c])
     /\ _domains_ready # NULL
     /\ \E k \in 1..Len(CtList) :
           CtList[k] = EXTRACT(irq'[c].header, OPTIMSOC_SRC_MSB,
                               OPTIMSOC_SRC_LSB))
       => LET tile == EXTRACT(irq'[c].header, OPTIMSOC_SRC_MSB,
                              OPTIMSOC_SRC_LSB)
              endpoint == EXTRACT(irq'[c].header, 9, 2)
          IN  /\ ~oops'
              /\ DOMAIN _domains_ready' = DOMAIN _domains_ready
              /\ \A d \in DOMAIN _domains_ready :
                    _domains_ready'[d] =
                        IF d = RankOf(tile) + 1
                        THEN _domains_ready[d] \cup {endpoint}
                        ELSE _domains_ready[d]

C10_UnregisteredClassSkipped ==
    [][\A c \in Cores :
          (/\ variant = "cls" /\ IrqSteps(c)
           /\ irq[c].pc = "dispatch"
           /\ cls_handlers[irq[c].class] = 0)
             => /\ calls' = calls
                /\ ~oops'
                /\ irq'[c].pc = "for"
                /\ irq'[c].ep = (irq[c].ep + 1) % UINT16
                /\ irq'[c].empty = irq[c].empty
      ]_vars

\* C10 witness: a class-3 packet of 2 words was taken from endpoint 0 with
\* no handler registered for class 3; the handler is back in the for loop at
\* endpoint 1 and nothing was invoked.
C10_Witness ==
    \E c \in Cores :
       /\ variant = "cls" /\ irq[c].pc = "for" /\ irq[c].ep = 1
       /\ irq[c].size = 2 /\ irq[c].header = H3 /\ irq[c].class = 3
       /\ cls_handlers[3] = 0
       /\ calls = <<>>

\* C11: a read or a write that returns on a minor at or above the endpoint
\* count returns -EINVAL and leaves the driver's state and the ports as
\* they are; a read or a write on a minor below the endpoint count does not
\* return -EINVAL.
C11_InvalidMinorRejected ==
    [][\A p \in Procs :
          (pc[p] \in {"read", "write"} /\ pc'[p] = "idle")
             => IF arg[p] < NumHwEndpoints
                THEN ret'[p].val # -EINVAL
                ELSE /\ ret'[p].val = -EINVAL
                     /\ UNCHANGED <<openVars, memVars, hwVars, clsVars>>
      ]_vars

\* C13: once optimsoc_module_init has returned SUCCESS in the buffering or
\* the classifying revision, _num_endpoints, the bound of the scan and of
\* the stop test, is the endpoint count the adapter reports in its register
\* and is at most NR_ENDPOINTS = 16.
C13_EndpointCountFromRegister ==
    (initpc = "done" /\ variant # "simple")
       => _num_endpoints = NumHwEndpoints /\ _num_endpoints <= NR_ENDPOINTS

\* C16: when optimsoc_module_init has failed, nothing it acquired is left:
\* the character device is not registered and the interrupt handler is not
\* installed.
C16_FailedInitReleasesAll ==
    initpc = "failed" => ~chrdev /\ ~irqreg

\* C12: irq_handler returns only at the end of a pass that polled each of
\* the adapter's endpoints 0..N-1 and read the length 0 from every one of
\* them, and at the end of a pass over 0..N-1 in which some endpoint had a
\* packet it starts another pass.
C12_StopOnlyAfterEmptyPass ==
    [][\A c \in Cores :
          (variant # "simple" /\ irq[c].pc = "for" /\ IrqSteps(c)) =>
             /\ irq'[c].pc = "idle"
                   => /\ irq[c].ep = NumHwEndpoints
                      /\ irq[c].empty = NumHwEndpoints
             /\ (irq[c].ep = NumHwEndpoints /\ irq[c].empty # NumHwEndpoints)
                   => /\ irq'[c].pc = "for"
                      /\ irq'[c].ep = 0 /\ irq'[c].empty = 0
      ]_vars

\* C15: buffering revision, file operations issued one after the other:
\* whenever no file operation is in progress, an endpoint that is not open
\* holds no buffer storage (release has freed what open allocated).
C15_ClosedEndpointHoldsNoStorage ==
    (variant = "buf" /\ \A p \in Procs : pc[p] = "idle")
       => \A e \in HwEndpoints :
             HeldOn(e) = 0 => adapters[e].buffer = NULL

\* C19: buffering revision: a step of the copy loop on an endpoint that has
\* no buffer storage (never opened, buffer NULL) or that is not open stores
\* nothing into any buffer and does not fault.
C19_NoWriteWithoutStorage ==
    [][\A c \in Cores :
          (/\ variant = "buf" /\ irq[c].pc = "copy"
           /\ rx' # rx
           /\ \/ adapters[irq[c].ep].buffer = NULL
              \/ HeldOn(irq[c].ep) = 0)
             => adapters' = adapters /\ ~oops'
      ]_vars

\* C20: classifying revision: the domain index every readiness update
\* writes at lies inside the bitmap, in 0..(number of compute tiles - 1),
\* also for a header whose source tile is not in the compute-tile list.
C20_DomainIndexInBitmap ==
    [][\A c \in Cores :
          (/\ variant = "cls" /\ irq[c].pc = "classify" /\ IrqSteps(c)
           /\ irq'[c].upd # <<>>)
             => irq'[c].upd[1] \in 0..(Len(CtList) - 1)
      ]_vars

\* C17: classifying revision, one instance of the handler at a time: for a
\* packet of 1..32 words the handler invokes nothing while it copies and
\* decodes it; with a handler registered for its class the dispatch goes to
\* the call without reading a port, and the call is one invocation of a
\* registered handler with the class of the packet's first word, the length
\* word as length and a buffer whose first size words are the words of the
\* packet in the order they were read, after which the handler is back in
\* the for loop: one invocation, before the next length word is read.
C17_HandlerGetsPacketOnce ==
    [][\A c \in Cores :
          (/\ variant = "cls" /\ IrqSteps(c)
           /\ irq[c].size \in 1..OPTIMSOC_NA_MAX_PACKET_SIZE) =>
             /\ irq[c].pc \in {"copy", "classify"} => calls' = calls
             /\ (irq[c].pc = "dispatch" /\ cls_handlers[irq[c].class] # 0)
                   => /\ calls' = calls /\ rx' = rx
                      /\ irq'[c].pc = "call"
             /\ (irq[c].pc = "call" /\ cls_handlers[irq[c].class] # 0)
                   => /\ ~oops' /\ rx' = rx
                      /\ Len(irq[c].words) = irq[c].size
                      /\ irq[c].class = EXTRACT(irq[c].words[1],
                                                OPTIMSOC_CLASS_MSB,
                                                OPTIMSOC_CLASS_LSB)
                      /\ Len(calls') = Len(calls) + 1
                      /\ SubSeq(calls', 1, Len(calls)) = calls
                      /\ calls'[Len(calls')].fn \in Handlers
                      /\ calls'[Len(calls')].class = irq[c].class
                      /\ calls'[Len(calls')].size = irq[c].size
                      /\ calls'[Len(calls')].buf = irq[c].words
                      /\ irq'[c].pc = "for"
      ]_vars

\* C17 witness: the class-3 packet <<2, H3, 11>> was handed to the class-3
\* handler, once, as the words H3, 11 with length 2.
C17_Witness ==
    \E c \in Cores :
       /\ variant = "cls" /\ irq[c].pc = "for"
       /\ irq[c].size = 2 /\ irq[c].words = <<H3, 11>>
       /\ Len(calls) = 1
       /\ calls[1] = [fn |-> 1, class |-> 3, size |-> 2, buf |-> <<H3, 11>>]

\* C14: with finitely many packets arriving, every invocation of
\* irq_handler that does not end in a kernel fault comes to its return, and
\* the handler is eventually back at rest with every receive port read
\* empty.
C14_HandlerTerminates ==
    \A c \in Cores :
       (irq[c].pc # "idle")
          ~> \/ oops
             \/ irq[c].pc = "idle" /\ \A e \in HwEndpoints : rx[e] = <<>>

\* C18: classifying revision with a second instance of irq_handler running
\* on another core: every invocation for a packet of 1..32 words has
\* received, as the first size words of its buffer, the words of one whole
\* packet that arrived at a port, in their order.
C18_ReentrantBufferUnmixed ==
    \A k \in 1..Len(calls) :
       calls[k].size \in 1..OPTIMSOC_NA_MAX_PACKET_SIZE
          => \E pkt \in Packets :
                pkt[1] = calls[k].size /\ calls[k].buf = Tail(pkt)

====
